---- MODULE Spec2Model ----
(***************************************************************************)
(* A model of vistream: the port pool (socket_pool.py), the wire codec     *)
(* (protocol/message.py) and the per-client session (server.py).           *)
(*                                                                         *)
(* Reading of the source.  The files do not load as they stand (missing    *)
(* colons, mixed indentation, names that are never bound).  Statements     *)
(* are modelled as written; a name that resolves to nothing is read as     *)
(* the declared name it evidently stands for (bitstream -> bitstring,      *)
(* transmit_frame -> transmit_frames, SocketPool.sockets starts as the     *)
(* empty dict its annotation declares).  Control flow, guards, operands    *)
(* and the order of reads are never repaired.  BufferedSocket and the     *)
(* frame limiters are imported but are not part of the files modelled;    *)
(* what the reader hands back is compared with a tag or a length by its   *)
(* numeric value, and Message.parse hands the buffer to the parse of the  *)
(* class it names.  Thread(f) is read as the thread that runs f once it   *)
(* is started.  ProcessedCamera.source is read as the FrameSource the      *)
(* class declares, and the frame_id() of a Camera as its frame counter.    *)
(***************************************************************************)
EXTENDS Integers, Sequences, FiniteSets, TLC

(***************************************************************************)
(* Bounds of the model.                                                    *)
(***************************************************************************)
NumThreads == 2
NumPorts == 2
\* calls to the pool made in one run
MaxCalls == 4

\* SocketPool(start, end): the configured range is start..end.
PortStart == 1
PortEnd == PortStart + NumPorts - 1

Threads == 1..NumThreads
port_range == PortStart..PortEnd
\* ports a caller may pass to deallocate: the range and one port below it
PortArgs == (PortStart - 1)..PortEnd

NoPort == PortStart - 2

VARIABLES
    \* ---- SocketPool -----------------------------------------------------
    available_ports,  \* deque of free ports
    sockets,          \* dict port -> socket; 0 when the key is absent,
                      \* else the generation of the socket object stored
    bound,            \* socket objects <<port, generation>> that are open
    pc,               \* per thread: the line it is about to execute
    port,             \* per thread: local `port`
    s,                \* per thread: local `s` (a generation of port[t])
    ret,              \* per thread: what the last call returned or raised
    \* history of the calls, for the statements about leases
    leaseCount,       \* per port: allocate() returns since the last
                      \* successful deallocate of that port
    callLeased,       \* per thread: the port was leased when deallocate was called
    callFree,         \* per thread: the port was out of range or available then
    calls,            \* calls made so far
    \* ---- codec ----------------------------------------------------------
    msg,              \* the message a sender holds
    lead,             \* bytes on the wire ahead of the message
    wire,             \* all bytes the sender has put on the wire
    fmt,              \* how the message got there: format(), a peer, or a fault
    fed,              \* how many bytes of wire have reached the reader
    rpos,             \* bytes the reader has consumed
    res,              \* what the last Message.parse returned or raised
    partial,          \* a parse was tried on a strict prefix of the message
    obj,              \* a FrameData object built from the payloads of msg
    orig,             \* that object as it was constructed
    ops,              \* _compress/_decompress calls made on obj
    \* ---- Connection -----------------------------------------------------
    inbox,            \* what the client has sent and the worker has not yet read
    out,              \* the last thing the worker wrote to the client
    lastFid,          \* frame id of the last FrameData written, -1 before any
    transmitting,     \* Event
    transmit_frames,  \* Event
    transmit_data,    \* Event
    compression,      \* bool
    source,           \* self.source: the rate policy bound by Start
    wpc,              \* where the worker is in its loop
    status,           \* "running", or the exception that ended the worker
    frame_id,         \* id of the frame the Stream's source currently holds
    post_processor,   \* the Stream has a post-processing function
    \* history of the session
    lastCtl,          \* the last of Start/Stop handled, "none" before any
    lastStart,        \* the last Start handled
    restarted,        \* the last Start was handled while Transmitting and
                      \* cleared a payload kind that was enabled
    started,          \* a Start has been handled
    configured,       \* a Configure carrying COMPRESSED has been handled
    wroteSince,       \* a FrameData has been written since lastCtl was set
    \* ---- Camera ---------------------------------------------------------
    cam_pc,           \* the frame grabber thread: the line it is about to execute
    captured,         \* frames the device has delivered; the n-th frame is n
    current_frame,    \* the frame in the shared cell, 0 while the attribute is unset
    frameid,          \* Camera._frameid
    stop_capture,     \* Event
    seen,             \* per reader: the frame and the id it last read
    \* ---- ProcessedCamera -----------------------------------------------
    proc_pc,          \* its frame grabber thread: the line it is about to execute
    proc_frame,       \* local `frame` of that thread
    proc_current,     \* ProcessedCamera.current_frame: the source frame whose
                      \* processed form is in the cell, 0 while unset
    proc_id,          \* ProcessedCamera._frame_id
    published,        \* per source frame: how often it went through the
                      \* layers and into the cell
    \* ---- Stream ---------------------------------------------------------
    streams,          \* per Stream object: how its construction ended, its
                      \* entry_point, its listener thread
    building,         \* per thread: the Stream whose __init__ it is running, 0 if none
    conns             \* per Stream: the state of each Connection its listener made

poolVars == <<available_ports, sockets, bound, pc, port, s, ret,
              leaseCount, callLeased, callFree, calls>>

frameVars == <<obj, orig, ops>>

codecVars == <<msg, lead, wire, fmt, fed, rpos, res, partial, frameVars>>

connVars == <<inbox, out, lastFid, transmitting, transmit_frames, transmit_data, compression,
              source, wpc, status, frame_id, post_processor,
              lastCtl, lastStart, restarted, started, configured, wroteSince>>

procVars == <<proc_pc, proc_frame, proc_current, proc_id, published>>

camVars == <<cam_pc, captured, current_frame, frameid, stop_capture, seen, procVars>>

streamVars == <<streams, building, conns>>

vars == <<poolVars, codecVars, connVars, camVars, streamVars>>

(***************************************************************************)
(* SocketPool                                                              *)
(***************************************************************************)
RECURSIVE RangeSeq(_, _)
RangeSeq(lo, hi) == IF lo > hi THEN <<>> ELSE <<lo>> \o RangeSeq(lo + 1, hi)

InQueue(q, p) == \E i \in 1..Len(q) : q[i] = p

\* SocketPool.__init__
PoolStart ==
    /\ available_ports = RangeSeq(PortStart, PortEnd)
    /\ sockets = [p \in port_range |-> 0]
    /\ bound = {}
    /\ pc = [t \in Threads |-> "idle"]
    /\ port = [t \in Threads |-> NoPort]
    /\ s = [t \in Threads |-> 0]
    /\ ret = [t \in Threads |-> "none"]
    /\ leaseCount = [p \in port_range |-> 0]
    /\ callLeased = [t \in Threads |-> FALSE]
    /\ callFree = [t \in Threads |-> FALSE]
    /\ calls = 0

\* entry into allocate(): the caller's locals are fresh
EnterAllocate(t) ==
    /\ pc[t] = "idle"
    /\ calls < MaxCalls
    /\ calls' = calls + 1
    /\ pc' = [pc EXCEPT ![t] = "a_pop"]
    /\ ret' = [ret EXCEPT ![t] = "running"]
    /\ port' = [port EXCEPT ![t] = NoPort]
    /\ s' = [s EXCEPT ![t] = 0]
    /\ callLeased' = [callLeased EXCEPT ![t] = FALSE]
    /\ callFree' = [callFree EXCEPT ![t] = FALSE]
    /\ UNCHANGED <<available_ports, sockets, bound, leaseCount>>

\* a thread enters allocate()
CallAllocate(t) ==
    /\ EnterAllocate(t)
    /\ UNCHANGED <<codecVars, connVars, camVars, streamVars>>

\* a variant without the test of line 20
PoolExhaustedMutant(q) == FALSE

\* the test of line 20
PoolExhausted(q) == Len(q) = 0

\* deque.popleft(): the port taken and what is left; IndexError on an empty deque
PopLeft(q) ==
    IF Len(q) = 0 THEN [ok |-> FALSE, port |-> NoPort, rest |-> q]
    ELSE [ok |-> TRUE, port |-> Head(q), rest |-> Tail(q)]

\* allocate, lines 19-22: the critical section under availability_lock
AllocatePop(t) ==
    /\ pc[t] = "a_pop"
    /\ IF PoolExhausted(available_ports)
       THEN /\ ret' = [ret EXCEPT ![t] = "None"]
            /\ pc' = [pc EXCEPT ![t] = "idle"]
            /\ UNCHANGED <<available_ports, port>>
       ELSE LET r == PopLeft(available_ports) IN
            IF r.ok
            THEN /\ port' = [port EXCEPT ![t] = r.port]
                 /\ available_ports' = r.rest
                 /\ pc' = [pc EXCEPT ![t] = "a_bind"]
                 /\ UNCHANGED ret
            ELSE /\ ret' = [ret EXCEPT ![t] = "IndexError"]
                 /\ pc' = [pc EXCEPT ![t] = "idle"]
                 /\ UNCHANGED <<available_ports, port>>
    /\ UNCHANGED <<sockets, bound, s, leaseCount, callLeased, callFree, calls>>
    /\ UNCHANGED <<codecVars, connVars, camVars, streamVars>>

\* allocate, lines 24-27: a new socket object is bound and stored
AllocateBind(t) ==
    /\ pc[t] = "a_bind"
    /\ LET g == sockets[port[t]] + 1 IN
       /\ sockets' = [sockets EXCEPT ![port[t]] = g]
       /\ bound' = bound \cup {<<port[t], g>>}
       /\ s' = [s EXCEPT ![t] = g]
    /\ pc' = [pc EXCEPT ![t] = "a_ret"]
    /\ UNCHANGED <<available_ports, port, ret, leaseCount, callLeased, callFree, calls>>
    /\ UNCHANGED <<codecVars, connVars, camVars, streamVars>>

\* allocate, line 29: the caller receives the socket
AllocateReturn(t) ==
    /\ pc[t] = "a_ret"
    /\ ret' = [ret EXCEPT ![t] = "socket"]
    /\ pc' = [pc EXCEPT ![t] = "idle"]
    /\ leaseCount' = [leaseCount EXCEPT ![port[t]] = @ + 1]
    /\ UNCHANGED <<available_ports, sockets, bound, port, s, callLeased, callFree, calls>>
    /\ UNCHANGED <<codecVars, connVars, camVars, streamVars>>

\* a thread enters deallocate(p)
CallDeallocate(t, p) ==
    /\ pc[t] = "idle"
    /\ calls < MaxCalls
    /\ calls' = calls + 1
    /\ pc' = [pc EXCEPT ![t] = "d_check"]
    /\ ret' = [ret EXCEPT ![t] = "running"]
    /\ port' = [port EXCEPT ![t] = p]
    /\ s' = [s EXCEPT ![t] = 0]
    /\ callLeased' = [callLeased EXCEPT ![t] = p \in port_range /\ leaseCount[p] > 0]
    /\ callFree' = [callFree EXCEPT ![t] =
                       p \notin port_range \/ InQueue(available_ports, p)]
    /\ UNCHANGED <<available_ports, sockets, bound, leaseCount>>
    /\ UNCHANGED <<codecVars, connVars, camVars, streamVars>>

\* the guard of line 33
Rejects(socks, p) == (p \in port_range /\ socks[p] # 0) \/ p \notin port_range

\* deallocate, lines 33-34
DeallocateCheck(t) ==
    /\ pc[t] = "d_check"
    /\ IF Rejects(sockets, port[t])
       THEN /\ ret' = [ret EXCEPT ![t] = "False"]
            /\ pc' = [pc EXCEPT ![t] = "idle"]
       ELSE /\ pc' = [pc EXCEPT ![t] = "d_lookup"]
            /\ UNCHANGED ret
    /\ UNCHANGED <<available_ports, sockets, bound, port, s,
                   leaseCount, callLeased, callFree, calls>>
    /\ UNCHANGED <<codecVars, connVars, camVars, streamVars>>

\* deallocate, line 36: s = self.sockets[port], KeyError when the key is absent
DeallocateLookup(t) ==
    /\ pc[t] = "d_lookup"
    /\ IF sockets[port[t]] = 0
       THEN /\ ret' = [ret EXCEPT ![t] = "KeyError"]
            /\ pc' = [pc EXCEPT ![t] = "idle"]
            /\ UNCHANGED s
       ELSE /\ s' = [s EXCEPT ![t] = sockets[port[t]]]
            /\ pc' = [pc EXCEPT ![t] = "d_close"]
            /\ UNCHANGED ret
    /\ UNCHANGED <<available_ports, sockets, bound, port,
                   leaseCount, callLeased, callFree, calls>>
    /\ UNCHANGED <<codecVars, connVars, camVars, streamVars>>

\* deallocate, lines 37-38: shutdown and close; OSError on a closed socket
DeallocateClose(t) ==
    /\ pc[t] = "d_close"
    /\ IF <<port[t], s[t]>> \in bound
       THEN /\ bound' = bound \ {<<port[t], s[t]>>}
            /\ pc' = [pc EXCEPT ![t] = "d_append"]
            /\ UNCHANGED ret
       ELSE /\ ret' = [ret EXCEPT ![t] = "OSError"]
            /\ pc' = [pc EXCEPT ![t] = "idle"]
            /\ UNCHANGED bound
    /\ UNCHANGED <<available_ports, sockets, port, s,
                   leaseCount, callLeased, callFree, calls>>
    /\ UNCHANGED <<codecVars, connVars, camVars, streamVars>>

\* deallocate, lines 39-42: append under the lock, return True
DeallocateAppend(t) ==
    /\ pc[t] = "d_append"
    /\ available_ports' = Append(available_ports, port[t])
    /\ ret' = [ret EXCEPT ![t] = "True"]
    /\ pc' = [pc EXCEPT ![t] = "idle"]
    /\ leaseCount' = [leaseCount EXCEPT ![port[t]] = 0]
    /\ UNCHANGED <<sockets, bound, port, s, callLeased, callFree, calls>>
    /\ UNCHANGED <<codecVars, connVars, camVars, streamVars>>

PoolNext ==
    \E t \in Threads :
        \/ CallAllocate(t)
        \/ AllocatePop(t)
        \/ AllocateBind(t)
        \/ AllocateReturn(t)
        \/ \E p \in PortArgs : CallDeallocate(t, p)
        \/ DeallocateCheck(t)
        \/ DeallocateLookup(t)
        \/ DeallocateClose(t)
        \/ DeallocateAppend(t)


(***************************************************************************)
(* Wire codec (protocol/message.py).  Bytes are naturals 0..255; a         *)
(* payload is a sequence of bytes, NoData where Python has None.           *)
(***************************************************************************)
NoData == << -1 >>

\* MessageKind
FRAME_DATA_KIND == 1
REQUEST_KIND == 2
CONFIGURE_KIND == 3
START_KIND == 4
STOP_KIND == 5
\* bytes that are the tag of no message kind
UnknownTags == {0, 255}

\* Parameter (IntFlag, auto()): the bit of each parameter
ParamNames == {"FRAME_SIZE", "COMPRESSED", "FOV", "TARGET_SIZE"}
ParamBit(p) ==
    CASE p = "FRAME_SIZE" -> 1
      [] p = "COMPRESSED" -> 2
      [] p = "FOV" -> 4
      [] p = "TARGET_SIZE" -> 8

\* StreamFlags (IntFlag, auto())
StreamFlagNames == {"COMPRESSED", "FRAME_DATA", "ADDL_DATA"}
StreamBit(f) ==
    CASE f = "COMPRESSED" -> 1
      [] f = "FRAME_DATA" -> 2
      [] f = "ADDL_DATA" -> 4

RECURSIVE SumOver(_, _, _)
\* the integer of a flag set: the OR of its bits
SumOver(S, names, isParam) ==
    IF names = {} THEN 0
    ELSE LET n == CHOOSE x \in names : TRUE IN
         (IF n \in S THEN (IF isParam THEN ParamBit(n) ELSE StreamBit(n)) ELSE 0)
         + SumOver(S, names \ {n}, isParam)

ParamFlags(S) == SumOver(S, ParamNames, TRUE)
StreamFlagsInt(S) == SumOver(S, StreamFlagNames, FALSE)
ParamsOf(n) == {p \in ParamNames : (n \div ParamBit(p)) % 2 = 1}
StreamFlagsOf(n) == {f \in StreamFlagNames : (n \div StreamBit(f)) % 2 = 1}

\* big-endian integers (bitstring uintbe16, uintbe24)
U16(n) == <<n \div 256, n % 256>>
U24(n) == <<n \div 65536, (n \div 256) % 256, n % 256>>
FromU16(b) == b[1] * 256 + b[2]
FromU24(b) == b[1] * 65536 + b[2] * 256 + b[3]

\* IEEE-754 single precision, big-endian (bitstring floatbe32), of the rates used
Rates == {0, 1, 30}
F32(r) ==
    CASE r = 0 -> <<0, 0, 0, 0>>
      [] r = 1 -> <<63, 128, 0, 0>>
      [] r = 30 -> <<65, 240, 0, 0>>
FromF32(b) == CHOOSE r \in Rates : F32(r) = b

\* zlib: a deflated blob starts with the zlib header byte and is never the input
Deflate(p) == <<120>> \o p
Inflate(q) == Tail(q)

\* ---- messages ----------------------------------------------------------
\* one record shape for the five kinds; fields a kind does not have hold
\* a fixed filler
Msg(k, ps, vs, fl, rt, fr, ad, cp) ==
    [kind |-> k, params |-> ps, values |-> vs, flags |-> fl, rate |-> rt,
     frame |-> fr, addl |-> ad, compressed |-> cp]

NoValues == [p \in {} |-> 0]
NoMsg == Msg("none", {}, NoValues, {}, 0, NoData, NoData, FALSE)
StopMsg == Msg("Stop", {}, NoValues, {}, 0, NoData, NoData, FALSE)
RequestMsg(ps) == Msg("Request", ps, NoValues, {}, 0, NoData, NoData, FALSE)
ConfigureMsg(vs) == Msg("Configure", DOMAIN vs, vs, {}, 0, NoData, NoData, FALSE)
StartMsg(fl, rt) == Msg("Start", {}, NoValues, fl, rt, NoData, NoData, FALSE)
FrameDataMsg(fr, ad, cp) == Msg("FrameData", {}, NoValues, {}, 0, fr, ad, cp)

\* values a Configure carries in the model
ValueOf(p, c) ==
    CASE p = "FRAME_SIZE" -> <<640, 480>>
      [] p = "COMPRESSED" -> c
      [] p = "FOV" -> <<1, 30>>
      [] p = "TARGET_SIZE" -> <<3, 4>>
ValuesFor(S, c) == [p \in S |-> ValueOf(p, c)]

\* a variant that packs one float for FOV
format_dataMutant(data) ==
    (IF "FRAME_SIZE" \in DOMAIN data
        THEN U16(data["FRAME_SIZE"][1]) \o U16(data["FRAME_SIZE"][2]) ELSE <<>>)
    \o (IF "COMPRESSED" \in DOMAIN data THEN <<IF data["COMPRESSED"] THEN 1 ELSE 0>>
        ELSE <<>>)
    \o (IF "FOV" \in DOMAIN data THEN F32(data["FOV"][1]) ELSE <<>>)
    \o (IF "TARGET_SIZE" \in DOMAIN data
        THEN U16(data["TARGET_SIZE"][1]) \o U16(data["TARGET_SIZE"][2]) ELSE <<>>)

\* Parameter.format_data: fixed width per parameter, in flag order
format_data(data) ==
    (IF "FRAME_SIZE" \in DOMAIN data
        THEN U16(data["FRAME_SIZE"][1]) \o U16(data["FRAME_SIZE"][2]) ELSE <<>>)
    \o (IF "COMPRESSED" \in DOMAIN data THEN <<IF data["COMPRESSED"] THEN 1 ELSE 0>>
        ELSE <<>>)
    \o (IF "FOV" \in DOMAIN data
        THEN F32(data["FOV"][1]) \o F32(data["FOV"][2]) ELSE <<>>)
    \o (IF "TARGET_SIZE" \in DOMAIN data
        THEN U16(data["TARGET_SIZE"][1]) \o U16(data["TARGET_SIZE"][2]) ELSE <<>>)

\* Parameter.byte_length
byte_length(S) ==
    (IF "FRAME_SIZE" \in S THEN 4 ELSE 0) + (IF "COMPRESSED" \in S THEN 1 ELSE 0)
    + (IF "FOV" \in S THEN 8 ELSE 0) + (IF "TARGET_SIZE" \in S THEN 4 ELSE 0)

\* where a parameter's bytes start in the parameter data of flag set S
OffsetOf(S, p) ==
    CASE p = "FRAME_SIZE" -> 0
      [] p = "COMPRESSED" -> byte_length(S \cap {"FRAME_SIZE"})
      [] p = "FOV" -> byte_length(S \cap {"FRAME_SIZE", "COMPRESSED"})
      [] p = "TARGET_SIZE" -> byte_length(S \cap {"FRAME_SIZE", "COMPRESSED", "FOV"})

\* Parameter.parse_bytes: each present parameter is unpacked from the front of
\* b, and b advances by its width
parse_bytes(S, b) ==
    [p \in S |->
        LET o == OffsetOf(S, p) IN
        CASE p = "FRAME_SIZE" -> <<FromU16(SubSeq(b, o + 1, o + 2)),
                                   FromU16(SubSeq(b, o + 3, o + 4))>>
          [] p = "COMPRESSED" -> b[o + 1] # 0
          [] p = "FOV" -> <<FromF32(SubSeq(b, o + 1, o + 4)),
                            FromF32(SubSeq(b, o + 5, o + 8))>>
          [] p = "TARGET_SIZE" -> <<FromU16(SubSeq(b, o + 1, o + 2)),
                                    FromU16(SubSeq(b, o + 3, o + 4))>>]

\* ---- FrameData object ---------------------------------------------------
FrameObj(fr, ad, cp, cur) ==
    [frame_data |-> fr, addl_data |-> ad, compressed |-> cp,
     currently_compressed |-> cur]

\* FrameData.__init__: at least one payload, or ValueError
FrameData_init(fr, ad, cp, cur) ==
    IF fr = NoData /\ ad = NoData THEN [ok |-> FALSE, err |-> "ValueError"]
    ELSE [ok |-> TRUE, err |-> "none"]

\* FrameData._compress
FrameData_compress(o) ==
    IF o.currently_compressed THEN o
    ELSE FrameObj(IF o.frame_data # NoData THEN Deflate(o.frame_data) ELSE NoData,
                  IF o.addl_data # NoData THEN Deflate(o.addl_data) ELSE NoData,
                  o.compressed, TRUE)

Bytes(b) == [ok |-> TRUE, bytes |-> b, err |-> "none"]
Raises(e) == [ok |-> FALSE, bytes |-> <<>>, err |-> e]

\* FrameData._decompress: line 142 calls zlib.compress on the auxiliary payload
FrameData_decompress(o) ==
    IF ~o.currently_compressed THEN o
    ELSE FrameObj(IF o.frame_data # NoData THEN Inflate(o.frame_data) ELSE NoData,
                  IF o.addl_data # NoData THEN Deflate(o.addl_data) ELSE NoData,
                  o.compressed, FALSE)

\* FrameData.frame
FrameData_frame(o) ==
    IF o.frame_data = NoData THEN Bytes(NoData)
    ELSE Bytes(FrameData_decompress(o).frame_data)

\* FrameData.addl_data: line 157 reads the property from inside itself
FrameData_addl(o) == Raises("RecursionError")

\* FrameData.format: len() of a payload that is None is a TypeError
FrameData_format(m) ==
    LET o0 == FrameObj(m.frame, m.addl, m.compressed, FALSE)
        o == IF o0.compressed THEN FrameData_compress(o0) ELSE o0
    IN  IF o.frame_data = NoData \/ o.addl_data = NoData
        THEN Raises("TypeError")
        ELSE Bytes(<<FRAME_DATA_KIND, IF o.compressed THEN 1 ELSE 0>>
                   \o U24(Len(o.frame_data)) \o o.frame_data
                   \o U16(Len(o.addl_data)) \o o.addl_data)

\* Request.format
Request_format(m) == Bytes(<<REQUEST_KIND>> \o U16(ParamFlags(m.params)))

\* Configure.format
Configure_format(m) ==
    Bytes(<<CONFIGURE_KIND>> \o U16(ParamFlags(DOMAIN m.values))
          \o format_data(m.values))

\* Start.format
Start_format(m) ==
    Bytes(<<START_KIND, StreamFlagsInt(m.flags)>> \o F32(m.rate))

\* Stop.format
Stop_format(m) == Bytes(<<STOP_KIND>>)

\* the sender constructs its message and calls format() on it
Format(m) ==
    CASE m.kind = "FrameData" ->
            IF FrameData_init(m.frame, m.addl, m.compressed, FALSE).ok
            THEN FrameData_format(m) ELSE Raises("ValueError")
      [] m.kind = "Request" -> Request_format(m)
      [] m.kind = "Configure" -> Configure_format(m)
      [] m.kind = "Start" -> Start_format(m)
      [] m.kind = "Stop" -> Stop_format(m)

\* the bytes of a message by the wire table of the protocol: what a
\* conforming peer sends (an absent payload has length 0)
WireOf(m) ==
    CASE m.kind = "FrameData" ->
            LET fr == IF m.frame = NoData THEN <<>>
                      ELSE IF m.compressed THEN Deflate(m.frame) ELSE m.frame
                ad == IF m.addl = NoData THEN <<>>
                      ELSE IF m.compressed THEN Deflate(m.addl) ELSE m.addl
            IN <<FRAME_DATA_KIND, IF m.compressed THEN 1 ELSE 0>>
               \o U24(Len(fr)) \o fr \o U16(Len(ad)) \o ad
      [] m.kind = "Request" -> <<REQUEST_KIND>> \o U16(ParamFlags(m.params))
      [] m.kind = "Configure" ->
            <<CONFIGURE_KIND>> \o U16(ParamFlags(DOMAIN m.values))
            \o format_data(m.values)
      [] m.kind = "Start" -> <<START_KIND, StreamFlagsInt(m.flags)>> \o F32(m.rate)
      [] m.kind = "Stop" -> <<STOP_KIND>>

\* ---- BufferedSocket (protocol/socket_buffer.py) ---------------------------
\* peek(n): the next n bytes without consuming them, or None
Peek(buf, pos, n) ==
    IF Len(buf) - pos >= n
    THEN [ok |-> TRUE, bytes |-> SubSeq(buf, pos + 1, pos + n), pos |-> pos]
    ELSE [ok |-> FALSE, bytes |-> <<>>, pos |-> pos]

\* read(n): exactly n bytes, consumed, or None with nothing consumed
Read(buf, pos, n) ==
    IF Len(buf) - pos >= n
    THEN [ok |-> TRUE, bytes |-> SubSeq(buf, pos + 1, pos + n), pos |-> pos + n]
    ELSE [ok |-> FALSE, bytes |-> <<>>, pos |-> pos]

\* ---- parse ---------------------------------------------------------------
\* what a parse gives back: out is "None", "Message" or the exception raised,
\* pos the reader's position afterwards
Parsed(o, m, p) == [out |-> o, m |-> m, pos |-> p]

\* FrameData.parse.  The payloads are kept as they came; the object is
\* marked currently compressed when the flag says so.  Line 197 constructs
\* the object, and the constructor refuses two absent payloads.
FrameData_parse(buf, pos) ==
    LET header == Read(buf, pos, 1) IN
    IF ~header.ok \/ header.bytes[1] # FRAME_DATA_KIND
    THEN Parsed("None", NoMsg, header.pos)
    ELSE
    LET flags == Read(buf, header.pos, 1) IN
    IF ~flags.ok THEN Parsed("None", NoMsg, flags.pos)
    ELSE
    LET frame_len == Read(buf, flags.pos, 3) IN
    IF ~frame_len.ok THEN Parsed("None", NoMsg, frame_len.pos)
    ELSE
    LET n == FromU24(frame_len.bytes)
        fd == IF n > 0 THEN Read(buf, frame_len.pos, n)
              ELSE [ok |-> TRUE, bytes |-> NoData, pos |-> frame_len.pos]
    IN
    IF ~fd.ok THEN Parsed("None", NoMsg, fd.pos)
    ELSE
    LET addl_len == Read(buf, fd.pos, 2) IN
    IF ~addl_len.ok THEN Parsed("None", NoMsg, addl_len.pos)
    ELSE
    LET k == FromU16(addl_len.bytes)
        ad == IF k > 0 THEN Read(buf, addl_len.pos, k)
              ELSE [ok |-> TRUE, bytes |-> NoData, pos |-> addl_len.pos]
    IN
    IF ~ad.ok THEN Parsed("None", NoMsg, ad.pos)
    ELSE LET compressed == flags.bytes[1] % 2 = 1
             made == FrameData_init(fd.bytes, ad.bytes, compressed, compressed)
         IN  IF made.ok
             THEN Parsed("Message", FrameDataMsg(fd.bytes, ad.bytes, compressed),
                         ad.pos)
             ELSE Parsed(made.err, NoMsg, ad.pos)

\* Request.parse
Request_parse(buf, pos) ==
    LET header == Read(buf, pos, 1) IN
    IF ~header.ok \/ header.bytes[1] # REQUEST_KIND
    THEN Parsed("None", NoMsg, header.pos)
    ELSE
    LET flags == Read(buf, header.pos, 2) IN
    IF ~flags.ok THEN Parsed("None", NoMsg, flags.pos)
    ELSE Parsed("Message", RequestMsg(ParamsOf(FromU16(flags.bytes))), flags.pos)

\* Configure.parse
Configure_parse(buf, pos) ==
    LET header == Read(buf, pos, 1) IN
    IF ~header.ok \/ header.bytes[1] # CONFIGURE_KIND
    THEN Parsed("None", NoMsg, header.pos)
    ELSE
    LET flags == Read(buf, header.pos, 2) IN
    IF ~flags.ok THEN Parsed("None", NoMsg, flags.pos)
    ELSE
    LET S == ParamsOf(FromU16(flags.bytes))
        param_data == Read(buf, flags.pos, byte_length(S))
    IN
    IF ~param_data.ok THEN Parsed("None", NoMsg, param_data.pos)
    ELSE Parsed("Message", ConfigureMsg(parse_bytes(S, param_data.bytes)),
                param_data.pos)

\* Start.parse.  Line 340 reads 4 bytes and line 344 unpacks uintbe8 and
\* floatbe32, 5 bytes, from them: bitstring raises ReadError (and line 345
\* would hand back a pair, not a Start).
Start_parse(buf, pos) ==
    LET header == Read(buf, pos, 1) IN
    IF ~header.ok \/ header.bytes[1] # START_KIND
    THEN Parsed("None", NoMsg, header.pos)
    ELSE
    LET bs == Read(buf, header.pos, 4) IN
    IF ~bs.ok THEN Parsed("None", NoMsg, bs.pos)
    ELSE Parsed("ReadError", NoMsg, bs.pos)

\* Stop.parse
Stop_parse(buf, pos) ==
    LET byte == Read(buf, pos, 1) IN
    IF ~byte.ok \/ byte.bytes[1] # STOP_KIND
    THEN Parsed("None", NoMsg, byte.pos)
    ELSE Parsed("Message", StopMsg, byte.pos)

\* MessageKind.of
MessageKind_of(b) ==
    IF b[1] \in {FRAME_DATA_KIND, REQUEST_KIND, CONFIGURE_KIND, START_KIND, STOP_KIND}
    THEN b[1] ELSE -1

\* Message.parse: the kind is peeked, the message is decoded by its class
Message_parse(buf, pos) ==
    LET message_kind == Peek(buf, pos, 1) IN
    IF ~message_kind.ok THEN Parsed("None", NoMsg, pos)
    ELSE LET k == MessageKind_of(message_kind.bytes) IN
         CASE k = FRAME_DATA_KIND -> FrameData_parse(buf, pos)
           [] k = REQUEST_KIND -> Request_parse(buf, pos)
           [] k = CONFIGURE_KIND -> Configure_parse(buf, pos)
           [] k = START_KIND -> Start_parse(buf, pos)
           [] k = STOP_KIND -> Stop_parse(buf, pos)
           [] OTHER -> Parsed("None", NoMsg, pos)

\* ---- a sender, the wire, a reader -----------------------------------------
MaxPayload == 2
\* calls of _compress/_decompress made on one object
MaxOps == 3

Payloads == {[i \in 1..n |-> 7] : n \in 1..MaxPayload}
ParamSets == SUBSET ParamNames

FramePayloads == Payloads \cup {NoData}
AddlPayloads == {<<9>>, NoData}

FrameMessages ==
    {FrameDataMsg(f, a, c) : f \in FramePayloads, a \in AddlPayloads, c \in BOOLEAN}
    \ {FrameDataMsg(NoData, NoData, c) : c \in BOOLEAN}

Messages ==
    {StopMsg}
    \cup {RequestMsg(S) : S \in ParamSets}
    \cup {ConfigureMsg(ValuesFor(S, c)) : S \in ParamSets, c \in BOOLEAN}
    \cup {StartMsg(F, r) : F \in SUBSET StreamFlagNames, r \in Rates}
    \cup FrameMessages

\* the arguments of a FrameData that has no payload at all
EmptyFrameMessages == {FrameDataMsg(NoData, NoData, c) : c \in BOOLEAN}

NoResult == Parsed("none", NoMsg, 0)
NoObj == FrameObj(NoData, NoData, FALSE, FALSE)

\* the FrameData object the sender holds for msg, if it can construct one
ObjectOf(m) ==
    IF m.kind = "FrameData" /\ FrameData_init(m.frame, m.addl, m.compressed, FALSE).ok
    THEN FrameObj(m.frame, m.addl, m.compressed, FALSE)
    ELSE NoObj

CodecParked ==
    /\ msg = NoMsg /\ lead = <<>> /\ wire = <<>> /\ fmt = "none"
    /\ fed = 0 /\ rpos = 0 /\ res = NoResult /\ partial = FALSE
    /\ obj = NoObj /\ orig = NoObj /\ ops = 0

CodecStart ==
    /\ msg \in Messages \cup EmptyFrameMessages
    /\ obj = ObjectOf(msg)
    /\ orig = obj
    /\ ops = 0
    /\ lead \in {<<>>} \cup {<<b>> : b \in UnknownTags}
    /\ wire = lead
    /\ fmt = "none"
    /\ fed = 0
    /\ rpos = 0
    /\ res = NoResult
    /\ partial = FALSE

\* the sender formats its message and writes the bytes
SendFormatted ==
    /\ fmt = "none"
    /\ LET f == Format(msg) IN
       IF f.ok THEN wire' = wire \o f.bytes /\ fmt' = "format"
       ELSE wire' = wire /\ fmt' = f.err
    /\ UNCHANGED <<msg, lead, fed, rpos, res, partial>>
    /\ UNCHANGED frameVars
    /\ UNCHANGED <<poolVars, connVars, camVars, streamVars>>

\* a peer writes the message as the wire table lays it out
SendWire ==
    /\ fmt = "none"
    /\ msg \in Messages \cup EmptyFrameMessages
    /\ wire' = wire \o WireOf(msg)
    /\ fmt' = "peer"
    /\ UNCHANGED <<msg, lead, fed, rpos, res, partial>>
    /\ UNCHANGED frameVars
    /\ UNCHANGED <<poolVars, connVars, camVars, streamVars>>

OnWire == fmt \in {"format", "peer"}

\* one more byte reaches the reader
Feed ==
    /\ OnWire
    /\ fed < Len(wire)
    /\ fed' = fed + 1
    /\ UNCHANGED <<msg, lead, wire, fmt, rpos, res, partial>>
    /\ UNCHANGED frameVars
    /\ UNCHANGED <<poolVars, connVars, camVars, streamVars>>

\* the reader's owner calls Message.parse on what has arrived
Parse ==
    /\ OnWire
    /\ res.out \in {"none", "None"}
    /\ LET r == Message_parse(SubSeq(wire, 1, fed), rpos) IN
       /\ res' = Parsed(r.out, r.m, 0)
       /\ rpos' = r.pos
    /\ partial' = (partial \/ (rpos >= Len(lead) /\ fed < Len(wire)))
    /\ UNCHANGED <<msg, lead, wire, fmt, fed>>
    /\ UNCHANGED frameVars
    /\ UNCHANGED <<poolVars, connVars, camVars, streamVars>>

\* the owner drops one byte it cannot make a message of
Skip ==
    /\ OnWire
    /\ res.out = "None"
    /\ rpos < Len(lead)
    /\ rpos < fed
    /\ rpos' = rpos + 1
    /\ res' = NoResult
    /\ UNCHANGED <<msg, lead, wire, fmt, fed, partial>>
    /\ UNCHANGED frameVars
    /\ UNCHANGED <<poolVars, connVars, camVars, streamVars>>

\* a call of _compress() on the object
Compress ==
    /\ obj # NoObj
    /\ fmt = "none"
    /\ ops < MaxOps
    /\ obj' = FrameData_compress(obj)
    /\ ops' = ops + 1
    /\ UNCHANGED <<msg, lead, wire, fmt, fed, rpos, res, partial, orig>>
    /\ UNCHANGED <<poolVars, connVars, camVars, streamVars>>

\* a call of _decompress() on the object
Decompress ==
    /\ obj # NoObj
    /\ fmt = "none"
    /\ ops < MaxOps
    /\ obj' = FrameData_decompress(obj)
    /\ ops' = ops + 1
    /\ UNCHANGED <<msg, lead, wire, fmt, fed, rpos, res, partial, orig>>
    /\ UNCHANGED <<poolVars, connVars, camVars, streamVars>>

CodecNext ==
    SendFormatted \/ SendWire \/ Feed \/ Parse \/ Skip \/ Compress \/ Decompress

(***************************************************************************)
(* Connection (server.py).  The session reads whole messages: inbox holds   *)
(* what Message.parse hands to respond_if_necessary, message by message,   *)
(* and an item that is no message where the next byte is an unknown tag.   *)
(* The framing of bytes is the codec's part above.                         *)
(***************************************************************************)
MaxInbox == 1
MaxFrames == 1

UnknownItem == Msg("Unknown", {}, NoValues, {}, 0, NoData, NoData, FALSE)

\* what a client sends in the model
ClientMessages ==
    {StopMsg, UnknownItem, FrameDataMsg(<<7>>, NoData, FALSE),
     FrameDataMsg(NoData, NoData, FALSE)}
    \cup {StartMsg(F, r) : F \in SUBSET {"FRAME_DATA", "ADDL_DATA"}, r \in {0, 30}}
    \cup {RequestMsg(S) : S \in {{"COMPRESSED"}, {"FRAME_SIZE", "COMPRESSED", "FOV"}}}
    \cup {ConfigureMsg(ValuesFor({"COMPRESSED"}, c)) : c \in BOOLEAN}
    \cup {ConfigureMsg(ValuesFor({"FRAME_SIZE", "FOV", "TARGET_SIZE"}, TRUE))}

\* self.source
Unbound == [kind |-> "unset", rate |-> 0]
FrameSequencer == [kind |-> "Sequencer", rate |-> 0]
FrameRateLimiter(r) == [kind |-> "Limiter", rate |-> r]

\* what the worker writes; via is the object whose get_frame() gave the frame
\* of a FrameData, "none" for anything else
Written(k, fid, fr, ad, cp, vs) ==
    [item |-> k, fid |-> fid, hasFrame |-> fr, hasAddl |-> ad, compressed |-> cp,
     values |-> vs, via |-> "none"]
NothingWritten == Written("none", 0, FALSE, FALSE, FALSE, NoValues)
FrameSize == <<640, 480>>

\* a variant that starts with compression off
InitialCompressionMutant == FALSE

\* Connection.__init__, line 47
InitialCompression == TRUE

\* Connection.__init__
ConnStart ==
    /\ inbox = <<>>
    /\ out = NothingWritten
    /\ lastFid = -1
    /\ transmitting = FALSE
    /\ transmit_frames = FALSE
    /\ transmit_data = FALSE
    /\ compression = InitialCompression
    /\ source = Unbound
    /\ wpc = "respond"
    /\ status = "running"
    /\ frame_id = 0
    /\ post_processor \in BOOLEAN
    /\ lastCtl = "none"
    /\ lastStart = NoMsg
    /\ restarted = FALSE
    /\ started = FALSE
    /\ configured = FALSE
    /\ wroteSince = FALSE

ConnParked ==
    /\ inbox = <<>> /\ out = NothingWritten /\ lastFid = -1
    /\ transmitting = FALSE /\ transmit_frames = FALSE
    /\ transmit_data = FALSE /\ compression = TRUE /\ source = Unbound
    /\ wpc = "respond" /\ status = "running" /\ frame_id = 0
    /\ post_processor = FALSE /\ lastCtl = "none" /\ lastStart = NoMsg
    /\ restarted = FALSE /\ started = FALSE /\ configured = FALSE
    /\ wroteSince = FALSE

history == <<lastCtl, lastStart, restarted, started, configured, wroteSince>>

\* the client writes a message to its socket
ClientSend(m) ==
    /\ Len(inbox) < MaxInbox
    /\ inbox' = Append(inbox, m)
    /\ UNCHANGED <<out, lastFid, transmitting, transmit_frames, transmit_data, compression,
                   source, wpc, status, frame_id, post_processor, history>>
    /\ UNCHANGED <<poolVars, codecVars, camVars, streamVars>>

\* the Stream's source captures the next frame
Capture ==
    /\ frame_id < MaxFrames
    /\ frame_id' = frame_id + 1
    /\ UNCHANGED <<inbox, out, lastFid, transmitting, transmit_frames, transmit_data,
                   compression, source, wpc, status, post_processor, history>>
    /\ UNCHANGED <<poolVars, codecVars, camVars, streamVars>>

Responding == status = "running" /\ wpc = "respond"

\* respond_if_necessary, lines 71-72: nothing to read
NothingToRead ==
    /\ Responding
    /\ inbox = <<>>
    /\ wpc' = "transmit"
    /\ UNCHANGED <<inbox, out, lastFid, transmitting, transmit_frames, transmit_data,
                   compression, source, status, frame_id, post_processor, history>>
    /\ UNCHANGED <<poolVars, codecVars, camVars, streamVars>>

\* lines 73-76 on an unknown tag: Message.parse peeks, returns None and
\* consumes nothing; no branch of the dispatch matches
NoMessage ==
    /\ Responding
    /\ inbox # <<>> /\ Head(inbox).kind = "Unknown"
    /\ wpc' = "transmit"
    /\ UNCHANGED <<inbox, out, lastFid, transmitting, transmit_frames, transmit_data,
                   compression, source, status, frame_id, post_processor, history>>
    /\ UNCHANGED <<poolVars, codecVars, camVars, streamVars>>

\* lines 77-89: Request.  self.source is bound by Start only (line 101/103);
\* before that the attribute does not exist.
HandleRequest ==
    /\ Responding
    /\ inbox # <<>> /\ Head(inbox).kind = "Request"
    /\ LET m == Head(inbox)
           S == m.params \cap {"FRAME_SIZE", "COMPRESSED"}
           data == [p \in S |-> IF p = "FRAME_SIZE" THEN FrameSize ELSE compression]
       IN  IF "FRAME_SIZE" \in m.params /\ source = Unbound
           THEN /\ status' = "AttributeError"
                /\ UNCHANGED <<out, wpc>>
           ELSE /\ out' = Written("Configure", 0, FALSE, FALSE, FALSE, data)
                /\ wpc' = "transmit"
                /\ UNCHANGED status
    /\ inbox' = Tail(inbox)
    /\ UNCHANGED <<lastFid, transmitting, transmit_frames, transmit_data, compression, source,
                   frame_id, post_processor, history>>
    /\ UNCHANGED <<poolVars, codecVars, camVars, streamVars>>

\* a variant in which a Configure without COMPRESSED puts compression back on
CompressionAfterMutant(m, cur) ==
    IF "COMPRESSED" \in DOMAIN m.values THEN m.values["COMPRESSED"] ELSE TRUE

\* lines 92-93: self.compression after a Configure
CompressionAfter(m, cur) ==
    IF "COMPRESSED" \in DOMAIN m.values THEN m.values["COMPRESSED"] ELSE cur

\* lines 91-97: Configure
HandleConfigure ==
    /\ Responding
    /\ inbox # <<>> /\ Head(inbox).kind = "Configure"
    /\ LET m == Head(inbox) IN
       /\ compression' = CompressionAfter(m, compression)
       /\ configured' = (configured \/ "COMPRESSED" \in DOMAIN m.values)
    /\ inbox' = Tail(inbox)
    /\ wpc' = "transmit"
    /\ UNCHANGED <<out, lastFid, transmitting, transmit_frames, transmit_data, source, status,
                   frame_id, post_processor, lastCtl, lastStart, restarted, started,
                   wroteSince>>
    /\ UNCHANGED <<poolVars, codecVars, camVars, streamVars>>

\* lines 100-103: the policy a Start binds
PolicyFor(rate) == IF rate = 0 THEN FrameSequencer ELSE FrameRateLimiter(rate)

\* a variant that sets but never clears
EventAfterMutant(flag, m, cur) == cur \/ flag \in m.flags

\* lines 105-113: an Event is set when the flag is in the Start, cleared otherwise
EventAfter(flag, m, cur) == flag \in m.flags

\* lines 98-113: Start
HandleStart ==
    /\ Responding
    /\ inbox # <<>> /\ Head(inbox).kind = "Start"
    /\ LET m == Head(inbox) IN
       /\ transmitting' = TRUE
       /\ source' = PolicyFor(m.rate)
       /\ transmit_frames' = EventAfter("FRAME_DATA", m, transmit_frames)
       /\ transmit_data' = EventAfter("ADDL_DATA", m, transmit_data)
       /\ lastStart' = m
    /\ lastCtl' = "Start"
    /\ restarted' = (transmitting /\
                      \/ (transmit_frames /\ "FRAME_DATA" \notin Head(inbox).flags)
                      \/ (transmit_data /\ "ADDL_DATA" \notin Head(inbox).flags))
    /\ started' = TRUE
    /\ wroteSince' = FALSE
    /\ inbox' = Tail(inbox)
    /\ wpc' = "transmit"
    /\ UNCHANGED <<out, lastFid, compression, status, frame_id, post_processor, configured>>
    /\ UNCHANGED <<poolVars, codecVars, camVars, streamVars>>

\* a variant in which Stop leaves the Event as it was
AfterStopMutant(cur) == cur

\* line 116: what Stop leaves in the transmitting Event
AfterStop(cur) == FALSE

\* lines 115-116: Stop
HandleStop ==
    /\ Responding
    /\ inbox # <<>> /\ Head(inbox).kind = "Stop"
    /\ transmitting' = AfterStop(transmitting)
    /\ lastCtl' = "Stop"
    /\ wroteSince' = FALSE
    /\ inbox' = Tail(inbox)
    /\ wpc' = "transmit"
    /\ UNCHANGED <<out, lastFid, transmit_frames, transmit_data, compression, source, status,
                   frame_id, post_processor, lastStart, restarted, started, configured>>
    /\ UNCHANGED <<poolVars, codecVars, camVars, streamVars>>

\* lines 73-76: a FrameData from the client matches no branch; one whose
\* two length fields are 0 does not come out of Message.parse, whose last
\* line (message.py:197) constructs it and raises
IgnoreFrameData ==
    /\ Responding
    /\ inbox # <<>> /\ Head(inbox).kind = "FrameData"
    /\ LET m == Head(inbox)
           made == FrameData_init(m.frame, m.addl, m.compressed, m.compressed)
       IN  IF made.ok
           THEN wpc' = "transmit" /\ UNCHANGED status
           ELSE status' = made.err /\ UNCHANGED wpc
    /\ inbox' = Tail(inbox)
    /\ UNCHANGED <<out, lastFid, transmitting, transmit_frames, transmit_data, compression,
                   source, frame_id, post_processor, history>>
    /\ UNCHANGED <<poolVars, codecVars, camVars, streamVars>>

\* line 53: the worker goes on to transmit only when the Event is set
ShouldTransmit(t) == t

\* lines 53-54: not transmitting, next iteration
StayIdle ==
    /\ status = "running" /\ wpc = "transmit"
    /\ ~ShouldTransmit(transmitting)
    /\ wpc' = "respond"
    /\ UNCHANGED <<inbox, out, lastFid, transmitting, transmit_frames, transmit_data,
                   compression, source, status, frame_id, post_processor, history>>
    /\ UNCHANGED <<poolVars, codecVars, camVars, streamVars>>

\* line 57: the attribute of the Connection whose get_frame() the worker calls
FramePulledFrom == "frame_source"

\* lines 56-65: the frame comes from self.frame_source, the Stream's own
\* source; a FrameData without any payload is the ValueError of
\* FrameData.__init__ (message.py:112).  Line 56 builds the message before
\* any payload is attached, so as written it raises on every pass; the test
\* is applied here to the message as lines 58-63 assemble it, which only
\* adds writes to the behaviours of the worker.  Line 61 reads
\* stream.post_processor, which exists only once add_post_processing has
\* been called.
Transmit ==
    /\ status = "running" /\ wpc = "transmit"
    /\ ShouldTransmit(transmitting)
    /\ LET hasFrame == transmit_frames
           hasAddl == transmit_data /\ post_processor
       IN  IF transmit_data /\ ~post_processor
           THEN /\ status' = "AttributeError"
                /\ UNCHANGED <<out, lastFid, wpc, wroteSince>>
           ELSE IF ~hasFrame /\ ~hasAddl
           THEN /\ status' = "ValueError"
                /\ UNCHANGED <<out, lastFid, wpc, wroteSince>>
           ELSE /\ out' = [Written("FrameData", frame_id, hasFrame, hasAddl,
                                   compression, NoValues)
                            EXCEPT !.via = FramePulledFrom]
                /\ lastFid' = frame_id
                /\ wroteSince' = TRUE
                /\ wpc' = "respond"
                /\ UNCHANGED status
    /\ UNCHANGED <<inbox, transmitting, transmit_frames, transmit_data, compression,
                   source, frame_id, post_processor, lastCtl, lastStart, restarted,
                   started, configured>>
    /\ UNCHANGED <<poolVars, codecVars, camVars, streamVars>>

\* the passes of the worker's loop (lines 50-65)
Worker ==
    \/ NothingToRead
    \/ NoMessage
    \/ HandleRequest
    \/ HandleConfigure
    \/ HandleStart
    \/ HandleStop
    \/ IgnoreFrameData
    \/ StayIdle
    \/ Transmit

\* what a client sends to get a session going again
Resume == {StopMsg, StartMsg({"FRAME_DATA"}, 0)}

\* the client writes a Stop or a Start behind a byte that is no tag
ClientSendAfterUnknown(m) ==
    /\ inbox = <<UnknownItem>>
    /\ inbox' = Append(inbox, m)
    /\ UNCHANGED <<out, lastFid, transmitting, transmit_frames, transmit_data, compression,
                   source, wpc, status, frame_id, post_processor, history>>
    /\ UNCHANGED <<poolVars, codecVars, camVars, streamVars>>

ConnNext ==
    \/ \E m \in ClientMessages : ClientSend(m)
    \/ Capture
    \/ NothingToRead
    \/ NoMessage
    \/ HandleRequest
    \/ HandleConfigure
    \/ HandleStart
    \/ HandleStop
    \/ IgnoreFrameData
    \/ StayIdle
    \/ Transmit

(***************************************************************************)
(* Camera (camera.py): the frame grabber thread, the shared cell it        *)
(* publishes into and the threads that read the cell.                      *)
(***************************************************************************)
NumReaders == 2
\* frames the device delivers in one run
MaxCaptures == 2
Readers == 1..NumReaders

\* what a reader holds: the frame it took from the cell and the id it read
Seen(f, i, e) == [frame |-> f, id |-> i, err |-> e]
NothingSeen == Seen(0, 0, "unread")

\* ProcessedCamera.__init__, lines 217-238: _frame_id 0, current_frame not
\* assigned, the grabber thread not created
ProcessedStart ==
    /\ proc_pc = "off"
    /\ proc_frame = 0
    /\ proc_current = 0
    /\ proc_id = 0
    /\ published = [f \in 1..MaxCaptures |-> 0]

\* Camera.__init__, lines 55-70: _frameid 0, current_frame not assigned, the
\* grabber thread not created
CamStart ==
    /\ cam_pc = "off"
    /\ captured = 0
    /\ current_frame = 0
    /\ frameid = 0
    /\ stop_capture = FALSE
    /\ seen = [r \in Readers |-> NothingSeen]
    /\ ProcessedStart

CamParked ==
    /\ cam_pc = "off" /\ captured = 0 /\ current_frame = 0 /\ frameid = 0
    /\ stop_capture = FALSE /\ seen = [r \in Readers |-> NothingSeen]
    /\ ProcessedStart

\* Camera.start, lines 72-74
StartCapture ==
    /\ cam_pc = "off"
    /\ cam_pc' = "loop"
    /\ UNCHANGED <<captured, current_frame, frameid, stop_capture, seen>>
    /\ UNCHANGED <<poolVars, codecVars, connVars, streamVars, procVars>>

\* Camera.stop, line 77
StopCapture ==
    /\ cam_pc # "off"
    /\ ~stop_capture
    /\ stop_capture' = TRUE
    /\ UNCHANGED <<cam_pc, captured, current_frame, frameid, seen>>
    /\ UNCHANGED <<poolVars, codecVars, connVars, streamVars, procVars>>

\* _grab_frame, line 62
LoopTest ==
    /\ cam_pc = "loop"
    /\ cam_pc' = IF stop_capture THEN "done" ELSE "next"
    /\ UNCHANGED <<captured, current_frame, frameid, stop_capture, seen>>
    /\ UNCHANGED <<poolVars, codecVars, connVars, streamVars, procVars>>

\* _grab_frame, lines 63-65: the device gives the next frame, or None
NextFrame ==
    /\ cam_pc = "next"
    /\ \/ /\ captured < MaxCaptures
          /\ captured' = captured + 1
          /\ cam_pc' = "publish"
       \/ /\ cam_pc' = "loop"
          /\ UNCHANGED captured
    /\ UNCHANGED <<current_frame, frameid, stop_capture, seen>>
    /\ UNCHANGED <<poolVars, codecVars, connVars, streamVars, procVars>>

\* _grab_frame, lines 66-67: the frame goes into the cell under frame_lock
Publish ==
    /\ cam_pc = "publish"
    /\ current_frame' = captured
    /\ cam_pc' = "count"
    /\ UNCHANGED <<captured, frameid, stop_capture, seen>>
    /\ UNCHANGED <<poolVars, codecVars, connVars, streamVars, procVars>>

\* _grab_frame, line 68: the id is incremented after the lock is released
Count ==
    /\ cam_pc = "count"
    /\ frameid' = frameid + 1
    /\ cam_pc' = "loop"
    /\ UNCHANGED <<captured, current_frame, stop_capture, seen>>
    /\ UNCHANGED <<poolVars, codecVars, connVars, streamVars, procVars>>

\* a reader takes the frame with get_frame (lines 92-95, under frame_lock)
\* and the id the camera holds at that same moment; before the first publish
\* the attribute current_frame does not exist
Observe(r) ==
    /\ seen' = [seen EXCEPT ![r] =
                  IF current_frame = 0 THEN Seen(0, frameid, "AttributeError")
                  ELSE Seen(current_frame, frameid, "none")]
    /\ UNCHANGED <<cam_pc, captured, current_frame, frameid, stop_capture>>
    /\ UNCHANGED <<poolVars, codecVars, connVars, streamVars, procVars>>

\* ---- ProcessedCamera over that Camera -----------------------------------
\* self.source is read as the FrameSource the class declares, here the
\* Camera above, and its frame_id() as the Camera's frame counter.

\* ProcessedCamera.start, lines 240-242
ProcessedStartCapture ==
    /\ proc_pc = "off"
    /\ proc_pc' = "compare"
    /\ UNCHANGED <<proc_frame, proc_current, proc_id, published>>
    /\ UNCHANGED <<cam_pc, captured, current_frame, frameid, stop_capture, seen>>
    /\ UNCHANGED <<poolVars, codecVars, connVars, streamVars>>

\* _grab_frame, lines 226-228: nothing to do while the own counter equals
\* the id of the source
ProcessedCompare ==
    /\ proc_pc = "compare"
    /\ proc_id # frameid
    /\ proc_pc' = "get"
    /\ UNCHANGED <<proc_frame, proc_current, proc_id, published>>
    /\ UNCHANGED <<cam_pc, captured, current_frame, frameid, stop_capture, seen>>
    /\ UNCHANGED <<poolVars, codecVars, connVars, streamVars>>

\* _grab_frame, lines 229-231: the frame the source holds now
ProcessedGet ==
    /\ proc_pc = "get"
    /\ proc_frame' = current_frame
    /\ proc_pc' = "publish"
    /\ UNCHANGED <<proc_current, proc_id, published>>
    /\ UNCHANGED <<cam_pc, captured, current_frame, frameid, stop_capture, seen>>
    /\ UNCHANGED <<poolVars, codecVars, connVars, streamVars>>

\* _grab_frame, lines 232-235: the layers run on the frame and the result
\* goes into the cell under frame_lock
ProcessedPublish ==
    /\ proc_pc = "publish"
    /\ proc_current' = proc_frame
    /\ published' = [published EXCEPT ![proc_frame] = @ + 1]
    /\ proc_pc' = "count"
    /\ UNCHANGED <<proc_frame, proc_id>>
    /\ UNCHANGED <<cam_pc, captured, current_frame, frameid, stop_capture, seen>>
    /\ UNCHANGED <<poolVars, codecVars, connVars, streamVars>>

\* _grab_frame, line 236: the own counter goes up by one
ProcessedCount ==
    /\ proc_pc = "count"
    /\ proc_id' = proc_id + 1
    /\ proc_pc' = "compare"
    /\ UNCHANGED <<proc_frame, proc_current, published>>
    /\ UNCHANGED <<cam_pc, captured, current_frame, frameid, stop_capture, seen>>
    /\ UNCHANGED <<poolVars, codecVars, connVars, streamVars>>

CameraNext ==
    \/ ProcessedStartCapture
    \/ ProcessedCompare
    \/ ProcessedGet
    \/ ProcessedPublish
    \/ ProcessedCount
    \/ StartCapture
    \/ StopCapture
    \/ LoopTest
    \/ NextFrame
    \/ Publish
    \/ Count
    \/ \E r \in Readers : Observe(r)

(***************************************************************************)
(* Stream (server.py): construction over the shared port pool, the         *)
(* listener thread and the Connections it makes.                           *)
(***************************************************************************)
\* one Stream more than there are ports
Streams == 1..(NumPorts + 1)
\* clients one listener is offered
MaxClients == 2
Clients == 1..MaxClients

StreamObj(st, ep, li) == [state |-> st, entry_point |-> ep, listener |-> li]
NoStream == StreamObj("none", NoPort, "none")

StreamParked ==
    /\ streams = [k \in Streams |-> NoStream]
    /\ building = [t \in Threads |-> 0]
    /\ conns = [k \in Streams |-> <<>>]

\* Stream.initialize_socket_pool has run, no Stream has been created
StreamStart ==
    /\ streams = [k \in Streams |-> NoStream]
    /\ building = [t \in Threads |-> 0]
    /\ conns = [k \in Streams |-> <<>>]

\* Stream.__init__, lines 135-139: a thread creates the next Stream and
\* calls allocate() on the shared pool
StreamInit(t, k) ==
    /\ building[t] = 0
    /\ streams[k].state = "none"
    /\ \A j \in Streams : j < k => streams[j].state # "none"
    /\ EnterAllocate(t)
    /\ building' = [building EXCEPT ![t] = k]
    /\ streams' = [streams EXCEPT ![k] = StreamObj("init", NoPort, "none")]
    /\ UNCHANGED conns
    /\ UNCHANGED <<codecVars, connVars, camVars>>

\* a variant without the test of line 140
EntryPointMissingMutant(r) == FALSE

\* line 140: allocate() gave None
EntryPointMissing(r) == r = "None"

\* Stream.__init__, lines 140-155: ValueError when allocate() gave None;
\* otherwise the socket is kept and the listener thread is created.  The
\* thread is not started here.  An exception out of allocate() passes through.
StreamFinish(t) ==
    /\ building[t] # 0
    /\ pc[t] = "idle"
    /\ ret[t] # "running"
    /\ streams' = [streams EXCEPT ![building[t]] =
                     IF ret[t] \notin {"None", "socket"}
                     THEN StreamObj(ret[t], NoPort, "none")
                     ELSE IF EntryPointMissing(ret[t])
                     THEN StreamObj("ValueError", NoPort, "none")
                     ELSE StreamObj("built", port[t], "created")]
    /\ building' = [building EXCEPT ![t] = 0]
    /\ UNCHANGED conns
    /\ UNCHANGED <<poolVars, codecVars, connVars, camVars>>

\* the owner of a Stream starts its listener thread (nothing in server.py
\* does); listener_job, line 148
ListenerStart(k) ==
    /\ streams[k].listener = "created"
    /\ streams' = [streams EXCEPT ![k].listener = "accept"]
    /\ UNCHANGED <<building, conns>>
    /\ UNCHANGED <<poolVars, codecVars, connVars, camVars>>

\* listener_job, lines 150-151: a client is accepted and a Connection is
\* made for it, whose worker thread starts at once
Accept(k) ==
    /\ streams[k].listener = "accept"
    /\ Len(conns[k]) < MaxClients
    /\ conns' = [conns EXCEPT ![k] = Append(@, "running")]
    /\ streams' = [streams EXCEPT ![k].listener = "append"]
    /\ UNCHANGED building
    /\ UNCHANGED <<poolVars, codecVars, connVars, camVars>>

\* listener_job, lines 152-153: self.connection_lock is assigned nowhere, so
\* the with statement raises AttributeError and the listener thread ends
Register(k) ==
    /\ streams[k].listener = "append"
    /\ streams' = [streams EXCEPT ![k].listener = "AttributeError"]
    /\ UNCHANGED <<building, conns>>
    /\ UNCHANGED <<poolVars, codecVars, connVars, camVars>>

\* a read or write on the socket of one Connection fails: the exception
\* leaves worker() (server.py lines 49-65 catch nothing) and that thread ends
ConnFault(k, c) ==
    /\ c <= Len(conns[k])
    /\ conns[k][c] = "running"
    /\ conns' = [conns EXCEPT ![k][c] = "IOError"]
    /\ UNCHANGED <<streams, building>>
    /\ UNCHANGED <<poolVars, codecVars, connVars, camVars>>

StreamNext ==
    \/ \E t \in Threads :
          \/ \E k \in Streams : StreamInit(t, k)
          \/ AllocatePop(t)
          \/ AllocateBind(t)
          \/ AllocateReturn(t)
          \/ StreamFinish(t)
    \/ \E k \in Streams :
          \/ ListenerStart(k)
          \/ Accept(k)
          \/ Register(k)
          \/ \E c \in Clients : ConnFault(k, c)

(***************************************************************************)
(* Specifications                                                          *)
(***************************************************************************)
PoolInit == PoolStart /\ CodecParked /\ ConnParked /\ CamParked /\ StreamParked
PoolSpec == PoolInit /\ [][PoolNext]_vars

PoolParked ==
    /\ available_ports = <<>> /\ sockets = [p \in port_range |-> 0] /\ bound = {}
    /\ pc = [t \in Threads |-> "idle"] /\ port = [t \in Threads |-> NoPort]
    /\ s = [t \in Threads |-> 0] /\ ret = [t \in Threads |-> "none"]
    /\ leaseCount = [p \in port_range |-> 0]
    /\ callLeased = [t \in Threads |-> FALSE] /\ callFree = [t \in Threads |-> FALSE]
    /\ calls = 0

CodecInit == CodecStart /\ PoolParked /\ ConnParked /\ CamParked /\ StreamParked
CodecSpec == CodecInit /\ [][CodecNext]_vars

Init == ConnStart /\ PoolParked /\ CodecParked /\ CamParked /\ StreamParked
Next == ConnNext
Spec == Init /\ [][Next]_vars

\* the session with input queued behind an unknown byte; the worker is a
\* thread that loops without blocking (server.py:50), so it keeps being
\* scheduled
ProgressNext == ConnNext \/ \E m \in Resume : ClientSendAfterUnknown(m)
ProgressSpec == Init /\ [][ProgressNext]_vars /\ WF_vars(Worker)

StreamsInit == StreamStart /\ PoolStart /\ CodecParked /\ ConnParked /\ CamParked
StreamSpec == StreamsInit /\ [][StreamNext]_vars

CameraInit == CamStart /\ PoolParked /\ CodecParked /\ ConnParked /\ StreamParked
CameraSpec == CameraInit /\ [][CameraNext]_vars


(***************************************************************************)
(* Properties                                                              *)
(***************************************************************************)

\* C1: no port is leased twice at once: allocate() never returns a port that
\* an earlier allocate() returned and no deallocate has since released.
PortExclusivity == \A p \in port_range : leaseCount[p] <= 1

\* C2: deallocate(p) of a port that is leased returns True.
DeallocateLeasedSucceeds ==
    \A t \in Threads : (pc[t] = "idle" /\ callLeased[t]) => ret[t] = "True"

\* C3: allocate() on an empty queue returns None and leaves the queue and
\* the stored sockets as they were.
ExhaustedAllocateFails ==
    [][\A t \in Threads :
          (pc[t] = "a_pop" /\ pc'[t] # "a_pop" /\ Len(available_ports) = 0)
          => /\ ret'[t] = "None"
             /\ pc'[t] = "idle"
             /\ available_ports' = available_ports
             /\ sockets' = sockets
             /\ bound' = bound]_vars

\* C3, its case: every port is leased and an allocate() has returned None
ExhaustedAllocateSeen ==
    /\ \E t \in Threads : pc[t] = "idle" /\ ret[t] = "None"
    /\ available_ports = <<>>
    /\ \A p \in port_range : leaseCount[p] >= 1

\* C4: deallocate(p) of a port outside the range, or of one that is
\* available, returns False.
DoubleFreeRejected ==
    \A t \in Threads : (pc[t] = "idle" /\ callFree[t]) => ret[t] = "False"

\* C5: while only a strict prefix of a message has arrived, parse returns
\* None and the read position stays where it was.
PartialDataSafe ==
    (OnWire /\ lead = <<>> /\ fed < Len(wire) /\ res.out # "none")
    => (res.out = "None" /\ rpos = 0)

\* what the reader decoded is the message that was sent: same kind, same
\* parameters, flags and rate, same payloads once decompressed
SameAsSent(sent, got) ==
    IF sent.kind # "FrameData" \/ got.kind # "FrameData" THEN sent = got
    ELSE LET o == FrameObj(got.frame, got.addl, got.compressed, got.compressed)
             f == FrameData_frame(o)
             a == IF o.addl_data = NoData THEN Bytes(NoData) ELSE FrameData_addl(o)
         IN  f.ok /\ a.ok /\ f.bytes = sent.frame /\ a.bytes = sent.addl

\* C6: an unknown leading tag parses to None with nothing consumed, and once
\* that byte is skipped the message behind it, all of it arrived, decodes.
UnknownTagResync ==
    (OnWire /\ lead # <<>>)
    => /\ (rpos = 0 /\ res.out # "none") => res.out = "None"
       /\ (rpos > 0 /\ ~partial /\ fed = Len(wire) /\ res.out # "none")
          => (res.out = "Message" /\ SameAsSent(msg, res.m))

\* C7: format() gives bytes for every message, and parse of those bytes
\* gives the message back.
RoundTrip ==
    /\ msg \in Messages => fmt \in {"none", "format", "peer"}
    /\ (fmt = "format" /\ lead = <<>> /\ ~partial /\ fed = Len(wire)
        /\ res.out # "none")
       => (res.out = "Message" /\ SameAsSent(msg, res.m))

\* C8 as stated: until the first Start is handled the session is Idle, with
\* compression on, no payload kind enabled, and has written no FrameData.
UnchangedUntilFirstStart ==
    ~started => /\ ~transmitting
                /\ compression
                /\ ~transmit_frames /\ ~transmit_data
                /\ lastFid = -1

\* C8 amended: until the first Start is handled the session is Idle, no
\* payload kind is enabled and no FrameData has been written; compression is
\* on until a Configure carrying COMPRESSED is handled.
IdleUntilFirstStart ==
    ~started => /\ ~transmitting
                /\ ~transmit_frames /\ ~transmit_data
                /\ lastFid = -1
                /\ (~configured => compression)

\* C8, its case: before any Start the worker has handled a Configure that
\* turned compression off and has passed its transmit check
ConfiguredBeforeStart ==
    ~started /\ configured /\ ~compression /\ wpc = "respond" /\ status = "running"

PolicyYields(policy, fid, last) ==
    policy.kind = "Limiter" \/ (policy.kind = "Sequencer" /\ fid # last)

\* the worker writes a FrameData in this step
WritesFrame == Transmit /\ status' = "running"

RequestAnswered ==
    [][HandleRequest
       => LET wanted == Head(inbox).params IN
          /\ status' = "running"
          /\ out'.item = "Configure"
          /\ DOMAIN out'.values \subseteq wanted
          /\ "FRAME_SIZE" \in wanted
             => ("FRAME_SIZE" \in DOMAIN out'.values
                 /\ out'.values["FRAME_SIZE"] = FrameSize)
          /\ "COMPRESSED" \in wanted
             => ("COMPRESSED" \in DOMAIN out'.values
                 /\ out'.values["COMPRESSED"] = compression)]_vars

NoPayloadIsTheOnlyFault ==
    (msg.kind = "FrameData" /\ fmt \notin {"none", "peer"})
    => IF msg \in EmptyFrameMessages THEN fmt = "ValueError" ELSE fmt = "format"

\* C17: _compress on a compressed object and _decompress on a decompressed
\* one change nothing, and _decompress on a compressed object gives back the
\* frame and auxiliary payloads the object was built with.
CompressionRoundTrip ==
    [][/\ (Compress /\ obj.currently_compressed) => obj' = obj
       /\ (Decompress /\ ~obj.currently_compressed) => obj' = obj
       /\ (Decompress /\ obj.currently_compressed)
          => /\ ~obj'.currently_compressed
             /\ obj'.frame_data = orig.frame_data
             /\ obj'.addl_data = orig.addl_data]_vars

\* width of the parameter data of a flag set, by the wire table
WidthOf(S) ==
    4 * (IF "FRAME_SIZE" \in S THEN 1 ELSE 0) + 1 * (IF "COMPRESSED" \in S THEN 1 ELSE 0)
    + 8 * (IF "FOV" \in S THEN 1 ELSE 0) + 4 * (IF "TARGET_SIZE" \in S THEN 1 ELSE 0)

FrameAndIdInStep ==
    \A r \in Readers : seen[r].err = "none" => seen[r].frame = seen[r].id

\* C15: once a Connection of a Stream has ended on a socket fault, the
\* Stream's accept loop is still running.
AcceptLoopSurvivesFault ==
    \A k \in Streams :
        (\E c \in 1..Len(conns[k]) : conns[k][c] = "IOError")
        => streams[k].listener \in {"accept", "append"}

\* Streams whose construction succeeded
Built == {k \in Streams : streams[k].state = "built"}

StopReadable == \E i \in 1..Len(inbox) : inbox[i].kind = "Stop"

ResumeQueued ==
    /\ status = "running"
    /\ Len(inbox) = 2
    /\ inbox[1].kind = "Unknown"
    /\ inbox[2] \in Resume

\* C27: the worker does not try the same unknown byte for ever: a Stop or a
\* Start the client has sent behind it is handled in the end, unless the
\* worker has ended for another reason.
ResumeAfterUnknown == ResumeQueued ~> (inbox = <<>> \/ status # "running")

\* C22: handling a Request, a Configure or a FrameData from the client
\* leaves the transmitting Event, the two payload Events and the bound
\* policy as they were; handling a FrameData from the client changes
\* nothing of the session at all and writes nothing.
OnlyStartAndStopSwitch ==
    [][/\ (HandleRequest \/ HandleConfigure \/ IgnoreFrameData)
          => UNCHANGED <<transmitting, transmit_frames, transmit_data, source>>
       /\ IgnoreFrameData
          => UNCHANGED <<out, lastFid, compression, status, frame_id,
                         post_processor>>]_vars

\* the payload length a field must show: 0 for an absent payload
FieldFor(payload) == IF payload = NoData THEN 0 ELSE Len(payload)

\* C23: format() of a FrameData that has at least one payload gives bytes
\* without a fault, also when only one of the two payloads is there; in
\* those bytes frame_len is the number of frame bytes that follow it and
\* addl_len the number of auxiliary bytes that follow it, 0 for an absent
\* payload; and the message decoded from them has the same payloads absent.
LengthFieldsCount ==
    (msg \in FrameMessages /\ fmt \notin {"none", "peer"})
    => /\ fmt = "format"
       /\ LET w == SubSeq(wire, Len(lead) + 1, Len(wire))
              frame_len == FromU24(SubSeq(w, 3, 5))
              addl_len == FromU16(SubSeq(w, 6 + frame_len, 7 + frame_len))
          IN  /\ Len(w) = 7 + frame_len + addl_len
              /\ msg.frame = NoData => frame_len = 0
              /\ msg.addl = NoData => addl_len = 0
              /\ ~msg.compressed
                 => (frame_len = FieldFor(msg.frame) /\ addl_len = FieldFor(msg.addl))
       /\ res.out = "Message"
          => /\ (res.m.frame = NoData) <=> (msg.frame = NoData)
             /\ (res.m.addl = NoData) <=> (msg.addl = NoData)

\* the last Start enabled no payload the session can produce
NothingProducible ==
    /\ lastCtl = "Start"
    /\ \/ lastStart.flags \cap {"FRAME_DATA", "ADDL_DATA"} = {}
       \/ (lastStart.flags \cap {"FRAME_DATA", "ADDL_DATA"} = {"ADDL_DATA"}
           /\ ~post_processor)

\* C24: after a Start that enables no payload the session can produce, a
\* transmitting pass of the worker writes no FrameData with both payloads
\* empty and does not end the worker: the session can still handle a Stop
\* or a Start.
EmptyStartKeepsSession ==
    [][(Transmit /\ NothingProducible)
       => /\ status' = "running"
          /\ ~(out'.item = "FrameData" /\ ~out'.hasFrame /\ ~out'.hasAddl)]_vars

\* how often port p is in the queue
RECURSIVE TimesIn(_, _)
TimesIn(q, p) ==
    IF q = <<>> THEN 0
    ELSE (IF Head(q) = p THEN 1 ELSE 0) + TimesIn(Tail(q), p)

\* port p is out of the pool: a caller holds it, or an allocate() has
\* taken it off the queue and has not returned yet
Leased(p) ==
    \/ leaseCount[p] > 0
    \/ \E t \in Threads : pc[t] \in {"a_bind", "a_ret"} /\ port[t] = p

\* C25: whatever the interleaving of allocate() and deallocate() calls,
\* every port of the range is either once in the available queue or leased,
\* never both, and no port is in the queue twice.
PoolConservation ==
    \A p \in port_range :
        /\ TimesIn(available_ports, p) <= 1
        /\ (TimesIn(available_ports, p) = 1) <=> ~Leased(p)

====
